---- MODULE Spec2Model ----
(***************************************************************************)
(* A model of `hfjobs run` (src/hfjobs/commands/run.py, RunCommand.run):   *)
(* building the job body, resolving the caller, submitting the job and the *)
(* foreground log/status monitor loop.                                     *)
(*                                                                         *)
(* Strings are sequences of tokens (chunks of characters), so that         *)
(* str.startswith and slicing are computed, not assumed.  An optional      *)
(* value is <<>> (None) or <<v>>.  The remote platform is the environment: *)
(* each of its answers is drawn from a small set.  Transport failures      *)
(* (connection errors) are not modelled: every request gets an answer.     *)
(***************************************************************************)
EXTENDS Integers, Sequences, FiniteSets, TLC

VARIABLES
    pc,               \* position of the process in RunCommand.run
    docker_image,     \* self.docker_image
    command,          \* self.command
    detach,           \* self.detach
    token_valid,      \* environment: whether whoami can resolve the caller
    input_json,       \* the job body built by run
    username,         \* whoami(...)["name"], <<>> before it is resolved
    resp,             \* the answer to the job-creation POST
    job_id,           \* resp.json()["metadata"]["job_id"], <<>> before
    logging_finished, \* run.py:82
    job_finished,     \* run.py:83
    log,              \* run.py:92, <<>> is None, <<p>> is the payload p
    job_status,       \* run.py:104, the last answer to the status GET
    stream,           \* the lines iter_lines has yielded in the current stream
    stdout,           \* what print has written, in order
    err,              \* the call that raised, "none" while nothing has
    req,              \* the HTTP request the last step issued, "none" if none
    nPost,            \* job-creation requests issued
    nLogs,            \* log-stream requests issued (saturates at MaxCount)
    nStatus           \* status requests issued (saturates at MaxCount)

vars == <<pc, docker_image, command, detach, token_valid, input_json, username, resp,
          job_id, logging_finished, job_finished, log, job_status, stream,
          stdout, err, req, nPost, nLogs, nStatus>>

\* The script-metadata extractors of uv.py and scripts.py, applied to one
\* script (their inputs and results)
VARIABLES
    script_content,   \* the script text the extractors are applied to
    deps,             \* what _extract_dependencies returned
    description,      \* what _extract_description returned, <<>> is None
    ext_pc            \* "off", "deps", "desc", "done"

extVars == <<script_content, deps, description, ext_pc>>

ExtIdle ==
    /\ script_content = <<>>
    /\ deps = <<>>
    /\ description = <<>>
    /\ ext_pc = "off"

\* The README of a script repository under _update_readme_with_script
VARIABLES
    readme,           \* the document as it stands
    existing_readme,  \* the document the last update was given
    script_name,      \* the filename the last update was given, "none" before
    nUpdates,         \* updates applied so far
    from_template,    \* the first document was rendered by _create_readme
    again             \* the last update repeated the entry of the one before

docVars == <<readme, existing_readme, script_name, nUpdates, from_template, again>>

DocIdle ==
    /\ readme = <<>>
    /\ existing_readme = <<>>
    /\ script_name = "none"
    /\ nUpdates = 0
    /\ from_template = FALSE
    /\ again = FALSE

\* The process around the handlers: the dispatcher of cli.py, the script
\* handlers of uv.py and scripts.py, and the files and repositories they
\* read and write
VARIABLES
    entry,            \* "main": cli.py main; "UvCommand", "ScriptsCommand":
                      \* the handler entered on its own; "off"
    argv,             \* the command words of the command line
    args_repo,        \* args.repo, <<>> is None
    args_script,      \* args.script, <<>> is None
    script_exists,    \* environment: Path(args.script).exists()
    config_repo,      \* the repo= value of ./.hfjobs/config, <<>> without it
    last_repo,        \* the content of ~/.hfjobs/last_uv_repo, <<>> without it
    dir_exists,       \* environment: the local directory of uv init exists
    hub_repos,        \* the dataset repositories on the platform
    hub_files,        \* the files uploaded, as <<repository, path>>
    repo_id,          \* the repository the handler resolved, <<>> before
    nWhoami,          \* identity lookups the handler made
    cli_pc,           \* position of the dispatcher or of the handler
    handler,          \* the class of the service constructed, "none" before
    run_args,         \* arguments run was invoked with, -1 before
    messages,         \* what the dispatcher and the script handlers printed
    exit_status,      \* the exit status of the process, -1 while it runs
    start             \* the pointer, the local directory and the platform's
                      \* repositories and files as the command found them

cliVars == <<entry, argv, args_repo, args_script, script_exists, config_repo,
             last_repo, dir_exists, hub_repos, hub_files, repo_id, nWhoami,
             cli_pc, handler, run_args, messages, exit_status, start>>

\* the files and repositories a command finds or leaves
Persistent(ptr, dir, repos, files) ==
    [last_repo |-> ptr, dir_exists |-> dir, hub_repos |-> repos, hub_files |-> files]

CliIdle ==
    /\ entry = "off"
    /\ argv = <<>>
    /\ args_repo = <<>>
    /\ args_script = <<>>
    /\ script_exists = FALSE
    /\ config_repo = <<>>
    /\ last_repo = <<>>
    /\ dir_exists = FALSE
    /\ hub_repos = {}
    /\ hub_files = {}
    /\ repo_id = <<>>
    /\ nWhoami = 0
    /\ cli_pc = "off"
    /\ handler = "none"
    /\ run_args = -1
    /\ messages = <<>>
    /\ exit_status = -1
    /\ start = Persistent(<<>>, FALSE, {}, {})

\* Two push invocations at work on the README.md of one repository
VARIABLES
    hub_readme,       \* the README.md of the repository, as it stands
    hub_scripts,      \* the filenames of the scripts uploaded to it
    push              \* per invocation: its position, the script it pushes,
                      \* the README it downloaded and the one it uploaded
                      \* (<<>> before, <<document>> after)

pushVars == <<hub_readme, hub_scripts, push>>

PushIdle ==
    /\ hub_readme = <<>>
    /\ hub_scripts = {}
    /\ push = <<>>

\* Two invocations at work on the pointer file ~/.hfjobs/last_uv_repo
VARIABLES
    pointer,          \* the characters of the file, <<>> when it is not
                      \* there or empty
    inv               \* per invocation: its position, the repository its
                      \* init creates, what its push read from the pointer
                      \* and the repository its push uploaded to

ptrVars == <<pointer, inv>>

PtrIdle ==
    /\ pointer = <<>>
    /\ inv = <<>>

concVars == <<pushVars, ptrVars>>

ConcIdle == PushIdle /\ PtrIdle

\* what `hfjobs run` leaves alone
restVars == <<extVars, docVars, cliVars, concVars>>

RestIdle == ExtIdle /\ DocIdle /\ CliIdle /\ ConcIdle

allVars == <<vars, restVars>>

-----------------------------------------------------------------------------
(* Bounds of the model *)

\* lines one log stream delivers before it closes
MaxLines == 2

\* the request counters nLogs and nStatus stop counting here
MaxCount == 3

-----------------------------------------------------------------------------
(* Strings *)

StartsWith(s, p) ==
    /\ Len(s) >= Len(p)
    /\ SubSeq(s, 1, Len(p)) = p

\* s[len(p):]
DropPrefix(s, p) == SubSeq(s, Len(p) + 1, Len(s))

Inc(n) == IF n < MaxCount THEN n + 1 ELSE n

-----------------------------------------------------------------------------
(* Command-line arguments *)

Command == <<"echo", "hi">>

Environment == <<>>

Flavor == "cpu-basic"

\* values of the dockerImage argument
Images ==
    { <<"ubuntu">>,
      <<"python", ":3.12">>,
      <<"https://", "huggingface.co", "/spaces/", "user/app">>,
      <<"https://", "hf.co", "/spaces/", "user/app">>,
      <<"huggingface.co", "/spaces/", "user/app">>,
      <<"hf.co", "/spaces/", "user/app">>,
      <<"hf.co", "/spaces/">>,
      <<"http://", "hf.co", "/spaces/", "user/app">>,
      <<"hf.co", "/models/", "user/app">>,
      <<"docker.io/", "hf.co", "/spaces/", "user/app">>,
      <<"https://", "huggingface.co", "/datasets/">> }

-----------------------------------------------------------------------------
(* The job body *)

SpacesPrefixes ==
    << <<"https://", "huggingface.co", "/spaces/">>,
       <<"https://", "hf.co", "/spaces/">>,
       <<"huggingface.co", "/spaces/">>,
       <<"hf.co", "/spaces/">> >>

BaseJson ==
    [command |-> Command, arguments |-> <<>>,
     environment |-> Environment, flavor |-> Flavor]

\* a variant of TargetField that does not know the shortest prefix
TargetField_NoShortPrefix(image) ==
    LET known == {i \in 1..Len(SpacesPrefixes) : SpacesPrefixes[i] # <<"hf.co", "/spaces/">>}
        hits == {i \in known : StartsWith(image, SpacesPrefixes[i])}
    IN  IF hits # {}
        THEN LET i == CHOOSE k \in hits : \A j \in hits : k <= j
             IN  "spaceId" :> DropPrefix(image, SpacesPrefixes[i])
        ELSE "dockerImage" :> image

\* the for/else of run.py:57-67: the first prefix that matches wins
TargetField(image) ==
    LET hits == {i \in 1..Len(SpacesPrefixes) : StartsWith(image, SpacesPrefixes[i])}
    IN  IF hits # {}
        THEN LET i == CHOOSE k \in hits : \A j \in hits : k <= j
             IN  "spaceId" :> DropPrefix(image, SpacesPrefixes[i])
        ELSE "dockerImage" :> image

-----------------------------------------------------------------------------
(* The platform's answers *)

Username == "alice"

JobId == <<"job-1">>

\* answers to the job-creation POST
PostResponses ==
    [status_code : {200, 300, 403, 500}, has_job_id : BOOLEAN]

NoResponse == [status_code |-> 0, has_job_id |-> FALSE]

\* a variant of RaiseForStatus that raises for server errors only
RaiseForStatus_ServerOnly(r) == r.status_code >= 500 /\ r.status_code < 600

\* requests.Response.raise_for_status raises for 4xx and 5xx only; a 3xx
\* answer that requests does not follow (300 Multiple Choices) is returned
RaiseForStatus(r) == r.status_code >= 400 /\ r.status_code < 600

Stages == {"PENDING", "RUNNING", "UPDATING", "COMPLETED", "ERROR"}

\* answers to the status GET: a status with a stage (and, for a failed job,
\* the platform's error code), or an answer without a status field
StatusResponses ==
    {[status |-> [stage |-> s, message |-> <<>>]] : s \in Stages \ {"ERROR"}}
    \cup {[status |-> [stage |-> "ERROR", message |-> <<"OOM">>]]}
    \cup {[error |-> <<"not found">>]}

\* a variant of JobFinishedAfter that takes UPDATING for a final stage
JobFinishedAfter_UpdatingFinal(jf, status) ==
    IF "status" \in DOMAIN status /\ status.status.stage \notin {"RUNNING"}
    THEN TRUE
    ELSE jf

\* a variant of JobFinishedAfter that never notices the end of the job
JobFinishedAfter_Never(jf, status) == jf

\* run.py:108-109
JobFinishedAfter(jf, status) ==
    IF "status" \in DOMAIN status /\ status.status.stage \notin {"RUNNING", "UPDATING"}
    THEN TRUE
    ELSE jf

JobStartedMarker == <<"===== Job started">>

\* lines a log stream can deliver (already decoded)
Lines ==
    { <<>>,
      <<": keep-alive">>,
      <<"data: ", "[", "hello", "]">>,
      <<"data: ", "{", "data", "===== Job started", " at 12:00 =====", "}">>,
      <<"data: ", "{", "data", "hello", "}">>,
      <<"data: ", "{", "data", "world ", "===== Job started", "}">>,
      <<"data: ", "{", "oops">> }

\* json.loads of an event's text: <<v>> with v the value of its "data"
\* field, <<>> when the text is no JSON object with that field
JsonLoadsData(text) ==
    IF /\ Len(text) >= 3
       /\ text[1] = "{"
       /\ text[2] = "data"
       /\ text[Len(text)] = "}"
    THEN <<SubSeq(text, 3, Len(text) - 1)>>
    ELSE <<>>

\* run.py:95
IsEventLine(line) == line # <<>> /\ StartsWith(line, <<"data: ", "{">>)

\* a variant of IsRealLog that prints the keepalive marker too
IsRealLog_All(data) == TRUE

\* run.py:98
IsRealLog(data) == ~StartsWith(data, JobStartedMarker)

\* variants of BreakLoop that test one flag only
BreakLoop_JobOnly(lf, jf) == jf

BreakLoop_LogOnly(lf, jf) == lf

\* run.py:102
BreakLoop(lf, jf) == lf \/ jf

-----------------------------------------------------------------------------
(* The process *)

Init ==
    /\ pc = "build"
    /\ docker_image \in Images
    /\ command = Command
    /\ detach \in BOOLEAN
    /\ token_valid \in BOOLEAN
    /\ input_json = <<>>
    /\ username = <<>>
    /\ resp = NoResponse
    /\ job_id = <<>>
    /\ logging_finished = FALSE
    /\ job_finished = FALSE
    /\ log = <<>>
    /\ job_status = <<>>
    /\ stream = <<>>
    /\ stdout = <<>>
    /\ err = "none"
    /\ req = "none"
    /\ nPost = 0
    /\ nLogs = 0
    /\ nStatus = 0
    /\ RestIdle

\* run.py:51-67
BuildJson ==
    /\ pc = "build"
    /\ UNCHANGED restVars
    /\ input_json' = [BaseJson EXCEPT !.command = command] @@ TargetField(docker_image)
    /\ pc' = "whoami"
    /\ req' = "none"
    /\ UNCHANGED <<docker_image, command, detach, token_valid, username, resp, job_id,
                   logging_finished, job_finished, log, job_status, stream,
                   stdout, err, nPost, nLogs, nStatus>>

\* a variant of Whoami that goes on without a resolved caller
Whoami_Swallow ==
    /\ pc = "whoami"
    /\ UNCHANGED restVars
    /\ req' = "whoami"
    /\ username' = IF token_valid THEN <<Username>> ELSE username
    /\ pc' = "post"
    /\ UNCHANGED <<docker_image, command, detach, token_valid, input_json, resp, job_id,
                   logging_finished, job_finished, log, job_status, stream,
                   stdout, err, nPost, nLogs, nStatus>>

\* run.py:68-69
Whoami ==
    /\ pc = "whoami"
    /\ UNCHANGED restVars
    /\ req' = "whoami"
    /\ IF token_valid
       THEN /\ username' = <<Username>>
            /\ pc' = "post"
            /\ err' = err
       ELSE /\ username' = username
            /\ pc' = "raised"
            /\ err' = "whoami"
    /\ UNCHANGED <<docker_image, command, detach, token_valid, input_json, resp, job_id,
                   logging_finished, job_finished, log, job_status, stream,
                   stdout, nPost, nLogs, nStatus>>

\* run.py:70-77
SubmitJob ==
    /\ pc = "post"
    /\ UNCHANGED restVars
    /\ \E r \in PostResponses :
        /\ resp' = r
        /\ IF RaiseForStatus(r)
           THEN /\ pc' = "raised"
                /\ err' = "raise_for_status"
                /\ job_id' = job_id
           ELSE IF ~r.has_job_id
           THEN /\ pc' = "raised"
                /\ err' = "job_id"
                /\ job_id' = job_id
           ELSE /\ pc' = "submitted"
                /\ err' = err
                /\ job_id' = JobId
    /\ req' = "post"
    /\ nPost' = nPost + 1
    /\ UNCHANGED <<docker_image, command, detach, token_valid, input_json, username,
                   logging_finished, job_finished, log, job_status, stream,
                   stdout, nLogs, nStatus>>

\* a variant of AfterSubmit whose detach branch does not return
AfterSubmit_NoReturn ==
    /\ pc = "submitted"
    /\ UNCHANGED restVars
    /\ stdout' = IF detach THEN Append(stdout, job_id) ELSE stdout
    /\ pc' = "open_stream"
    /\ logging_finished' = FALSE
    /\ job_finished' = FALSE
    /\ req' = "none"
    /\ UNCHANGED <<docker_image, command, detach, token_valid, input_json, username,
                   resp, job_id, log, job_status, stream, err, nPost, nLogs,
                   nStatus>>

\* run.py:78-83
AfterSubmit ==
    /\ pc = "submitted"
    /\ UNCHANGED restVars
    /\ IF detach
       THEN /\ stdout' = Append(stdout, job_id)
            /\ pc' = "returned"
       ELSE /\ stdout' = stdout
            /\ pc' = "open_stream"
    /\ logging_finished' = FALSE
    /\ job_finished' = FALSE
    /\ req' = "none"
    /\ UNCHANGED <<docker_image, command, detach, token_valid, input_json, username,
                   resp, job_id, log, job_status, stream, err, nPost, nLogs,
                   nStatus>>

\* run.py:87-92
OpenStream ==
    /\ pc = "open_stream"
    /\ UNCHANGED restVars
    /\ req' = "logs"
    /\ nLogs' = Inc(nLogs)
    /\ log' = <<>>
    /\ stream' = <<>>
    /\ pc' = "iter_lines"
    /\ UNCHANGED <<docker_image, command, detach, token_valid, input_json, username,
                   resp, job_id, logging_finished, job_finished, job_status,
                   stdout, err, nPost, nStatus>>

\* run.py:93-100, one iteration of the for loop
ReadLine ==
    /\ pc = "iter_lines"
    /\ UNCHANGED restVars
    /\ Len(stream) < MaxLines
    /\ \E line \in Lines :
        /\ stream' = Append(stream, line)
        /\ IF ~IsEventLine(line)
           THEN UNCHANGED <<log, stdout, pc, err>>
           ELSE LET data == JsonLoadsData(DropPrefix(line, <<"data: ">>))
                IN  IF data = <<>>
                    THEN /\ pc' = "raised"
                         /\ err' = "json.loads"
                         /\ UNCHANGED <<log, stdout>>
                    ELSE IF IsRealLog(data[1])
                    THEN /\ log' = data
                         /\ stdout' = Append(stdout, data[1])
                         /\ UNCHANGED <<pc, err>>
                    ELSE UNCHANGED <<log, stdout, pc, err>>
    /\ req' = "none"
    /\ UNCHANGED <<docker_image, command, detach, token_valid, input_json, username,
                   resp, job_id, logging_finished, job_finished, job_status,
                   nPost, nLogs, nStatus>>

\* run.py:93 and 101-103: the stream closes
CloseStream ==
    /\ pc = "iter_lines"
    /\ UNCHANGED restVars
    /\ logging_finished' = (logging_finished \/ log # <<>>)
    /\ IF BreakLoop(logging_finished', job_finished)
       THEN pc' = "returned"
       ELSE pc' = "status"
    /\ req' = "none"
    /\ UNCHANGED <<docker_image, command, detach, token_valid, input_json, username,
                   resp, job_id, job_finished, log, job_status, stream, stdout,
                   err, nPost, nLogs, nStatus>>

\* run.py:104-109
GetStatus ==
    /\ pc = "status"
    /\ UNCHANGED restVars
    /\ \E s \in StatusResponses :
        /\ job_status' = s
        /\ job_finished' = JobFinishedAfter(job_finished, s)
    /\ req' = "status"
    /\ nStatus' = Inc(nStatus)
    /\ pc' = "sleep"
    /\ UNCHANGED <<docker_image, command, detach, token_valid, input_json, username,
                   resp, job_id, logging_finished, log, stream, stdout, err,
                   nPost, nLogs>>

\* run.py:110
Sleep ==
    /\ pc = "sleep"
    /\ UNCHANGED restVars
    /\ pc' = "open_stream"
    /\ req' = "none"
    /\ UNCHANGED <<docker_image, command, detach, token_valid, input_json, username,
                   resp, job_id, logging_finished, job_finished, log,
                   job_status, stream, stdout, err, nPost, nLogs, nStatus>>

Next ==
    \/ BuildJson
    \/ Whoami
    \/ SubmitJob
    \/ AfterSubmit
    \/ OpenStream
    \/ ReadLine
    \/ CloseStream
    \/ GetStatus
    \/ Sleep

Spec == Init /\ [][Next]_allVars

\* The process is sequential and keeps running: whenever it has a next
\* step it takes one.  Every log stream is finite (MaxLines).
FairSpec == Spec /\ WF_allVars(Next)

\* cli.py:22-23: run returning ends the process with status 0, an uncaught
\* exception with status 1
ExitCode == IF pc = "raised" THEN 1 ELSE 0

Terminated == pc \in {"returned", "raised"}

-----------------------------------------------------------------------------
(* Vocabulary of the properties, stated on the lines themselves *)

\* a structured event line: data: {"data": <payload>}
StructuredEvent(line) ==
    /\ Len(line) >= 4
    /\ line[1] = "data: "
    /\ line[2] = "{"
    /\ line[3] = "data"
    /\ line[Len(line)] = "}"

PayloadOf(line) == SubSeq(line, 4, Len(line) - 1)

\* a real log line: a structured event whose payload does not begin with
\* the keepalive marker, the literal "===== Job started" of run.py:98
RealLine(line) ==
    /\ StructuredEvent(line)
    /\ (PayloadOf(line) = <<>> \/ PayloadOf(line)[1] # "===== Job started")

\* a real log line was delivered in the current (or last) log stream
RealDelivered == \E i \in 1..Len(stream) : RealLine(stream[i])

HasStatus == "status" \in DOMAIN job_status

\* the last status answer reports a running job
ActiveSeen == HasStatus /\ job_status.status.stage \in {"RUNNING", "UPDATING"}

\* the last status answer reports a job that has ended
TerminalSeen == HasStatus /\ job_status.status.stage \in {"COMPLETED", "ERROR"}

\* the last status answer reports a stage outside {running, updating}
NonActiveSeen == HasStatus /\ job_status.status.stage \notin {"RUNNING", "UPDATING"}

\* this step is the log stream closing normally
StreamCloses == pc = "iter_lines" /\ pc' \notin {"iter_lines", "raised"}

Contains(s, t) == \E k \in 0..(Len(s) - Len(t)) : SubSeq(s, k + 1, k + Len(t)) = t

-----------------------------------------------------------------------------
(* Properties *)

\* C1: when a log stream closes after a real log line was delivered in it,
\* the monitor is done: that step issues no request and ends run, and run
\* takes no step (so no status query, no further log stream) afterwards.
C1_LogThenDone ==
    [][ /\ (StreamCloses /\ RealDelivered) =>
                (pc' = "returned" /\ req' = "none"
                 /\ nLogs' = nLogs /\ nStatus' = nStatus)
        /\ (pc = "returned") => FALSE ]_vars

C1_Witness ==
    /\ pc = "returned"
    /\ ~detach
    /\ RealDelivered
    /\ nLogs = 2
    /\ nStatus = 1

\* C2 as stated: once a status answer is terminal (no real log line so
\* far), the monitor opens no log stream again, and for a job that is
\* immediately completed with no logs it is done after one stream and one
\* status query, with nothing printed and exit status 0.
C2_Original ==
    /\ TerminalSeen => req # "logs"
    /\ (pc = "returned" /\ ~detach /\ nStatus = 1 /\ TerminalSeen /\ ~RealDelivered)
           => (nLogs = 1 /\ stdout = <<>> /\ ExitCode = 0)

\* C2 amended: once a status answer is terminal, the monitor issues no
\* further status query; it sleeps, opens the log stream once more, and is
\* done when that stream closes.  For a job that is immediately completed
\* with no logs: two streams, one status query, nothing printed, exit 0.
C2_TerminalThenOneMoreStream ==
    /\ [][ TerminalSeen =>
              /\ req' # "status"
              /\ (pc = "sleep" => pc' = "open_stream")
              /\ (pc = "open_stream" => (req' = "logs" /\ pc' = "iter_lines"))
              /\ (StreamCloses => pc' = "returned") ]_vars
    /\ [](( /\ pc = "returned" /\ ~detach /\ nStatus = 1
            /\ HasStatus /\ job_status.status.stage = "COMPLETED"
            /\ ~RealDelivered )
          => (nLogs = 2 /\ stdout = <<>> /\ ExitCode = 0))

C2_Witness ==
    /\ pc = "returned"
    /\ ~detach
    /\ nStatus = 1
    /\ nLogs = 2
    /\ HasStatus /\ job_status.status.stage = "COMPLETED"
    /\ stdout = <<>>

\* C3 as stated: when the monitor is done and the job's final status is not
\* completed, a failure message containing the platform's error code has
\* been printed and the exit status is not 0.
C3_FailureReported ==
    ( /\ pc = "returned" /\ ~detach
      /\ TerminalSeen /\ job_status.status.stage # "COMPLETED" )
    => /\ \E i \in 1..Len(stdout) : Contains(stdout[i], job_status.status.message)
       /\ stdout # <<>>
       /\ ExitCode # 0

\* C4: when a stream closed with no real log line and the status answer is
\* running or updating, the monitor sleeps and then reopens the log stream,
\* and while the last status answer is active it is done only by a stream
\* that delivered a real log line.
C4_ActiveThenReopen ==
    [][ /\ (pc = "status" /\ pc' # "status") => pc' = "sleep"
        /\ (pc = "sleep" /\ ActiveSeen) => pc' = "open_stream"
        /\ (pc = "open_stream" /\ ActiveSeen) => (req' = "logs" /\ pc' = "iter_lines")
        /\ (ActiveSeen /\ StreamCloses /\ ~RealDelivered) => pc' = "status"
        /\ (ActiveSeen /\ pc' = "returned" /\ pc # "returned")
               => (StreamCloses /\ RealDelivered) ]_vars

C4_Witness ==
    /\ pc = "iter_lines"
    /\ ActiveSeen
    /\ job_status.status.stage = "UPDATING"
    /\ nLogs = 3
    /\ nStatus = 2

\* C5: once a real log line was delivered or a status outside {running,
\* updating} was reported, run eventually ends; and the monitor ends only
\* then: with empty streams and active statuses it keeps polling, however
\* many polls it has made.
C5_EndsIffLogsOrFinalStatus ==
    /\ ((~detach /\ (RealDelivered \/ NonActiveSeen)) ~> Terminated)
    /\ []((pc = "returned" /\ ~detach) => (RealDelivered \/ NonActiveSeen))

C5_Witness ==
    /\ pc = "returned"
    /\ ~detach
    /\ NonActiveSeen
    /\ ~RealDelivered
    /\ nStatus = MaxCount
    /\ nLogs = MaxCount

\* C6: with detach set, run prints only the job identifier and returns; no
\* log-stream request and no status request is ever issued.
C6_DetachSkipsMonitor ==
    detach =>
        /\ nLogs = 0
        /\ nStatus = 0
        /\ req \notin {"logs", "status"}
        /\ pc \in {"build", "whoami", "post", "submitted", "returned", "raised"}
        /\ (pc = "returned" => (stdout = <<JobId>> /\ job_id = JobId))
        /\ (pc # "returned" => stdout = <<>>)

C6_Witness ==
    /\ detach
    /\ pc = "returned"
    /\ stdout = <<JobId>>
    /\ nPost = 1

\* C7: in the foreground, what has been printed is exactly the payloads of
\* the real log lines received, in the order received (so keepalive and
\* non-event lines are never printed), and the monitor counts a log as seen
\* only if a real log line was received.
C7_OnlyRealLinesPrinted ==
    ~detach =>
        /\ LET real == SelectSeq(stream, RealLine)
           IN  stdout = [i \in 1..Len(real) |-> PayloadOf(real[i])]
        /\ (log # <<>> => RealDelivered)
        /\ (logging_finished => RealDelivered)

C7_Witness ==
    /\ pc = "returned"
    /\ ~detach
    /\ stream = << <<"data: ", "{", "data", "===== Job started", " at 12:00 =====", "}">>,
                   <<"data: ", "{", "data", "hello", "}">> >>
    /\ stdout = << <<"hello">> >>

\* C8: every submitted job body carries exactly one of spaceId and
\* dockerImage: spaceId, the image without the matched prefix, when the
\* image starts with a spaces URL prefix, and dockerImage, the image
\* unchanged, otherwise.
C8_ExactlyOneTarget ==
    nPost >= 1 =>
        LET prefixes == { <<"https://", "huggingface.co", "/spaces/">>,
                          <<"https://", "hf.co", "/spaces/">>,
                          <<"huggingface.co", "/spaces/">>,
                          <<"hf.co", "/spaces/">> }
            targets == DOMAIN input_json \cap {"spaceId", "dockerImage"}
        IN  /\ Cardinality(targets) = 1
            /\ IF \E p \in prefixes : StartsWith(docker_image, p)
               THEN /\ targets = {"spaceId"}
                    /\ \E p \in prefixes : p \o input_json.spaceId = docker_image
               ELSE /\ targets = {"dockerImage"}
                    /\ input_json.dockerImage = docker_image

C8_Witness ==
    /\ nPost = 1
    /\ docker_image = <<"hf.co", "/spaces/", "user/app">>
    /\ "spaceId" \in DOMAIN input_json
    /\ input_json.spaceId = <<"user/app">>

\* C9: if the caller cannot be resolved, run raises at whoami before any
\* job-creation request: no job, no identifier printed, no monitor.
C9_NoIdentityNoJob ==
    ~token_valid =>
        /\ nPost = 0
        /\ nLogs = 0
        /\ nStatus = 0
        /\ job_id = <<>>
        /\ stdout = <<>>
        /\ pc \in {"build", "whoami", "raised"}
        /\ (pc = "raised" => err = "whoami")

C9_Witness ==
    /\ ~token_valid
    /\ pc = "raised"
    /\ err = "whoami"
    /\ req = "whoami"

\* C10 as stated: after any answer to the job-creation request that is not
\* 2xx, run has raised, with one creation request issued, nothing printed
\* and no log-stream or status request.
C10_Original ==
    (resp # NoResponse /\ ~(resp.status_code >= 200 /\ resp.status_code < 300))
    => /\ pc = "raised"
       /\ nPost = 1
       /\ stdout = <<>>
       /\ nLogs = 0
       /\ nStatus = 0

\* C10 amended: after a 4xx or 5xx answer to the job-creation request, run
\* has raised at raise_for_status, with one creation request issued,
\* nothing printed and no log-stream or status request.
C10_ErrorStatusPropagates ==
    (resp # NoResponse /\ resp.status_code >= 400 /\ resp.status_code < 600)
    => /\ pc = "raised"
       /\ err = "raise_for_status"
       /\ nPost = 1
       /\ job_id = <<>>
       /\ stdout = <<>>
       /\ nLogs = 0
       /\ nStatus = 0

C10_Witness ==
    /\ resp.status_code = 403
    /\ resp.has_job_id
    /\ pc = "raised"
    /\ err = "raise_for_status"

-----------------------------------------------------------------------------
(***************************************************************************)
(* The script-metadata extractors (src/hfjobs/commands/uv.py:762-792, the  *)
(* same code in scripts.py:386-416).  A script is a sequence of tokens:    *)
(* the double-quote character, the newline, the blank, and chunks of other *)
(* characters, so that the regular expressions, `in`, split and strip are  *)
(* computed token by token.                                                *)
(***************************************************************************)

\* `hfjobs run` not running
RunIdle ==
    /\ pc = "off"
    /\ docker_image = <<>>
    /\ command = <<>>
    /\ detach = FALSE
    /\ token_valid = FALSE
    /\ input_json = <<>>
    /\ username = <<>>
    /\ resp = NoResponse
    /\ job_id = <<>>
    /\ logging_finished = FALSE
    /\ job_finished = FALSE
    /\ log = <<>>
    /\ job_status = <<>>
    /\ stream = <<>>
    /\ stdout = <<>>
    /\ err = "none"
    /\ req = "none"
    /\ nPost = 0
    /\ nLogs = 0
    /\ nStatus = 0

\* lines of the script the extractors are applied to
MaxScriptLines == 4

Quote == "\""

Newline == "\n"

Whitespace == {" ", Newline}

\* uv.py:768: the literal the scan starts at
DepsOpen == "dependencies = ["

\* uv.py:772: the literal the scan ends at
DepsClose == "]"

\* str.find: the first place t occurs in s, 0 if it does not (Python: -1)
Find(s, t) ==
    LET at == {k \in 1..(Len(s) - Len(t) + 1) : SubSeq(s, k, k + Len(t) - 1) = t}
    IN  IF at = {} THEN 0 ELSE CHOOSE k \in at : \A j \in at : k <= j

\* t in s
In(t, s) == Find(s, t) # 0

\* str.split(sep) for a one-token separator
RECURSIVE Split(_, _)
Split(s, sep) ==
    LET k == Find(s, <<sep>>)
    IN  IF k = 0 THEN <<s>>
        ELSE <<SubSeq(s, 1, k - 1)>> \o Split(SubSeq(s, k + 1, Len(s)), sep)

\* str.join(sep) of the lines
RECURSIVE Join(_, _)
Join(lines, sep) ==
    IF lines = <<>> THEN <<>>
    ELSE IF Len(lines) = 1 THEN lines[1]
    ELSE lines[1] \o <<sep>> \o Join(Tail(lines), sep)

\* str.strip
RECURSIVE Strip(_)
Strip(s) ==
    IF s = <<>> THEN s
    ELSE IF s[1] \in Whitespace THEN Strip(Tail(s))
    ELSE IF s[Len(s)] \in Whitespace THEN Strip(SubSeq(s, 1, Len(s) - 1))
    ELSE s

\* uv.py:774: re.search(r'"([^"]+)"', line): the leftmost quote that is
\* followed by at least one non-quote character and then a quote; <<>> is
\* no match, <<g>> is group 1
QuotedMatch(line) ==
    LET closes(i) == {j \in (i + 2)..Len(line) :
                        /\ line[j] = Quote
                        /\ \A k \in (i + 1)..(j - 1) : line[k] # Quote}
        opens == {i \in 1..Len(line) : line[i] = Quote /\ closes(i) # {}}
    IN  IF opens = {} THEN <<>>
        ELSE LET i == CHOOSE i \in opens : \A o \in opens : i <= o
                 j == CHOOSE j \in closes(i) : TRUE
             IN  <<SubSeq(line, i + 1, j - 1)>>

\* uv.py:767-776: the loop over the lines from line i on
RECURSIVE DepsLoop(_, _, _, _)
DepsLoop(lines, i, in_deps, found) ==
    IF i > Len(lines) THEN found
    ELSE IF In(<<DepsOpen>>, lines[i]) THEN DepsLoop(lines, i + 1, TRUE, found)
    ELSE IF in_deps
    THEN IF In(<<DepsClose>>, lines[i]) THEN found
         ELSE LET match == QuotedMatch(lines[i])
              IN  DepsLoop(lines, i + 1, TRUE,
                           IF match # <<>> THEN Append(found, match[1]) ELSE found)
    ELSE DepsLoop(lines, i + 1, FALSE, found)

\* uv.py:762-778 (scripts.py:386-402)
ExtractDependencies(content) == DepsLoop(Split(content, Newline), 1, FALSE, <<>>)

TripleQuote == <<Quote, Quote, Quote>>

\* a variant of FirstNonBlank that returns the line as it stands
RECURSIVE FirstNonBlank_Unstripped(_)
FirstNonBlank_Unstripped(lines) ==
    IF lines = <<>> THEN <<>>
    ELSE IF Strip(lines[1]) # <<>> THEN <<lines[1]>>
    ELSE FirstNonBlank_Unstripped(Tail(lines))

\* uv.py:788-791: the first line that is not blank, stripped
RECURSIVE FirstNonBlank(_)
FirstNonBlank(lines) ==
    IF lines = <<>> THEN <<>>
    ELSE IF Strip(lines[1]) # <<>> THEN <<Strip(lines[1])>>
    ELSE FirstNonBlank(Tail(lines))

\* uv.py:780-792 (scripts.py:404-416): re.search(r'"""(.*?)"""', ...,
\* re.DOTALL) is the leftmost triple quote and the nearest one after it
ExtractDescription(content) ==
    LET open == Find(content, TripleQuote)
        rest == SubSeq(content, open + 3, Len(content))
        close == Find(rest, TripleQuote)
    IN  IF open = 0 \/ close = 0 THEN <<>>
        ELSE FirstNonBlank(Split(Strip(SubSeq(rest, 1, close - 1)), Newline))

\* the lines scripts are made of
ScriptLines ==
    { <<>>,
      <<" ">>,
      <<"# ", DepsOpen>>,
      <<"#   ", Quote, "cowsay", Quote, ",">>,
      <<"#   ", Quote, "rich", Quote, ", ", Quote, "numpy", Quote, ",">>,
      <<"# ", DepsClose>>,
      <<"# ", DepsOpen, Quote, "requests", Quote, DepsClose>>,
      <<Quote, Quote, Quote, "Title">>,
      <<Quote, Quote, Quote>>,
      <<" ", "More", " ", "text", " ">>,
      <<"print(", Quote, "hi", Quote, ")">>,
      <<Quote, Quote, Quote, "One-liner", Quote, Quote, Quote>> }

Scripts ==
    {Join(ls, Newline) : ls \in UNION {[1..n -> ScriptLines] : n \in 0..MaxScriptLines}}

ExtInit ==
    /\ script_content \in Scripts
    /\ deps = <<>>
    /\ description = <<>>
    /\ ext_pc = "deps"
    /\ RunIdle
    /\ DocIdle
    /\ CliIdle
    /\ ConcIdle

\* dependencies = self._extract_dependencies(script_content)
CallExtractDependencies ==
    /\ ext_pc = "deps"
    /\ deps' = ExtractDependencies(script_content)
    /\ ext_pc' = "desc"
    /\ UNCHANGED <<script_content, description>>
    /\ UNCHANGED <<vars, docVars, cliVars, concVars>>

\* description = self._extract_description(script_content)
CallExtractDescription ==
    /\ ext_pc = "desc"
    /\ description' = ExtractDescription(script_content)
    /\ ext_pc' = "done"
    /\ UNCHANGED <<script_content, deps>>
    /\ UNCHANGED <<vars, docVars, cliVars, concVars>>

ExtNext ==
    \/ CallExtractDependencies
    \/ CallExtractDescription

ExtSpec == ExtInit /\ [][ExtNext]_allVars

-----------------------------------------------------------------------------
(* Vocabulary of the extractor properties *)

\* the quoted strings of s, in order
RECURSIVE QuotedStrings(_)
QuotedStrings(s) ==
    LET a == Find(s, <<Quote>>)
        r == SubSeq(s, a + 1, Len(s))
        b == Find(r, <<Quote>>)
    IN  IF a = 0 \/ b = 0 THEN <<>>
        ELSE <<SubSeq(r, 1, b - 1)>> \o QuotedStrings(SubSeq(r, b + 1, Len(r)))

\* what may stand between the entries of a dependencies list
Separators == {"# ", "#   ", ",", ", ", " ", Newline}

\* the text after the opening `dependencies = [`
AfterDepsOpen(content) ==
    SubSeq(content, Find(content, <<DepsOpen>>) + 1, Len(content))

\* the inside of the dependencies block: up to its closing bracket
DepsBlock(content) ==
    SubSeq(AfterDepsOpen(content), 1, Find(AfterDepsOpen(content), <<DepsClose>>) - 1)

HasDepsBlock(content) == In(<<DepsOpen>>, content)

\* one dependencies block, closed, whose inside is quoted strings and
\* separators only
WellFormedDeps(content) ==
    /\ HasDepsBlock(content)
    /\ ~In(<<DepsOpen>>, AfterDepsOpen(content))
    /\ In(<<DepsClose>>, AfterDepsOpen(content))
    /\ LET block == DepsBlock(content)
           quotes == {i \in 1..Len(block) : block[i] = Quote}
           inside(i) == Cardinality({q \in quotes : q < i}) % 2 = 1
       IN  /\ Cardinality(quotes) % 2 = 0
           /\ \A i \in 1..Len(block) :
                \/ block[i] = Quote
                \/ inside(i)
                \/ block[i] \in Separators
           /\ \A i \in 1..(Len(block) - 1) :
                ~(block[i] = Quote /\ block[i + 1] = Quote)

-----------------------------------------------------------------------------
(* Properties of the extractors *)

\* C15: for a script with a well-formed dependencies block (one line or one
\* entry per line, one or several entries per line) the extractor returns
\* exactly the quoted strings inside the block, in order; without a block
\* it returns the empty list.
C15_ExactlyTheBlock ==
    ext_pc \in {"desc", "done"} =>
        /\ ~HasDepsBlock(script_content) => deps = <<>>
        /\ WellFormedDeps(script_content) =>
               deps = QuotedStrings(DepsBlock(script_content))

\* the inside of the first triple-quoted string of the script
Docstring(content) ==
    LET from == Find(content, TripleQuote) + 3
        after == SubSeq(content, from, Len(content))
    IN  SubSeq(after, 1, Find(after, TripleQuote) - 1)

HasDocstring(content) ==
    /\ In(TripleQuote, content)
    /\ In(TripleQuote,
          SubSeq(content, Find(content, TripleQuote) + 3, Len(content)))

Blank(line) == \A k \in 1..Len(line) : line[k] \in Whitespace

-----------------------------------------------------------------------------
(***************************************************************************)
(* The README of a script repository (src/hfjobs/commands/uv.py:580-620    *)
(* and 668-702).  A document is a sequence of tokens, as a script is; the  *)
(* two markers are one token each.  Documents end with a newline.          *)
(***************************************************************************)

\* lines of the document the first update is given
MaxDocLines == 4

\* updates applied to one document
MaxUpdates == 3

\* uv.py:677
StartMarker == "<!-- AUTO-GENERATED SCRIPTS LIST - DO NOT EDIT MANUALLY -->"

\* uv.py:678
EndMarker == "<!-- END AUTO-GENERATED SCRIPTS LIST -->"

\* the repository the document belongs to
RepoId == <<"alice", "/", "my-scripts">>

\* the grave accent of the Markdown code spans (uv.py:599-608), a character
\* a string of this notation cannot hold
Backtick == "(grave accent)"

\* repo_id.split('/')[-1]
RepoName(repo) ==
    LET parts == Split(repo, "/") IN parts[Len(parts)]

\* self._extract_description(script_content) or "UV script"
DescriptionOr(script) ==
    IF ExtractDescription(script) = <<>> THEN <<"UV script">>
    ELSE ExtractDescription(script)[1]

\* uv.py:693 (and the row of the template, uv.py:608)
NewRow(repo, name, script) ==
    <<"| [", name, "]", "(./blob/main/", name, ")", " | ">>
    \o DescriptionOr(script)
    \o <<" | ", Backtick, "hfjobs uv run ", name, " --repo ">>
    \o RepoName(repo)
    \o <<Backtick, " |">>

\* uv.py:580-620
CreateReadme(repo, name, script) ==
    Join(<< <<"---">>,
            <<"tags:">>,
            <<"- hfjobs-uv-script">>,
            <<"- uv">>,
            <<"- python">>,
            <<"viewer: false">>,
            <<"---">>,
            <<>>,
            <<"# ">> \o RepoName(repo),
            <<>>,
            <<"A collection of UV scripts for hfjobs.">>,
            <<>>,
            <<"## Usage">>,
            <<>>,
            <<"Run any script using:">>,
            <<Backtick, Backtick, Backtick, "bash">>,
            <<"hfjobs uv run <script_name> --repo ">> \o RepoName(repo),
            <<Backtick, Backtick, Backtick>>,
            <<>>,
            <<"## Scripts">>,
            <<>>,
            <<StartMarker>>,
            <<"| Script | Description | Command |">>,
            <<"|--------|-------------|---------|">>,
            NewRow(repo, name, script),
            <<EndMarker>>,
            <<>>,
            <<"## Learn More">>,
            <<>>,
            <<"Learn more about UV scripts in the [UV documentation](https://docs.astral.sh/uv/guides/scripts/).">>,
            <<>>,
            <<"---">>,
            <<"*Created with [hfjobs](https://github.com/huggingface/hfjobs)*">>,
            <<>> >>, Newline)

\* a variant of ScriptInReadme that never finds the script
ScriptInReadme_Never(name, doc) == FALSE

\* uv.py:672-674: f"| [{script_name}]" in existing_readme
ScriptInReadme(name, doc) == In(<<"| [", name, "]">>, doc)

\* a variant of MarkersMissing that asks for both markers to be missing
MarkersMissing_Both(doc) ==
    Find(doc, <<StartMarker>>) = 0 /\ Find(doc, <<EndMarker>>) = 0

\* uv.py:680-683: start_idx == -1 or end_idx == -1
MarkersMissing(doc) ==
    Find(doc, <<StartMarker>>) = 0 \/ Find(doc, <<EndMarker>>) = 0

\* a variant of TableEnd that is the end of the start marker's line
TableEnd_AfterStart(doc) ==
    LET start_idx == Find(doc, <<StartMarker>>)
        after == {k \in (start_idx + 1)..Len(doc) : doc[k] = Newline}
    IN  IF after = {} THEN Len(doc)
        ELSE CHOOSE k \in after : \A j \in after : k <= j

\* uv.py:689: table_end = existing_readme.rfind("\n", 0, end_idx), as the
\* place the slices of 697-699 cut the document at; when no newline
\* precedes the end marker, rfind gives -1 and the slices [:-1] and [-1:]
\* cut before the last character
TableEnd(doc) ==
    LET end_idx == Find(doc, <<EndMarker>>)
        before == {k \in 1..(end_idx - 1) : doc[k] = Newline}
    IN  IF before = {} THEN Len(doc)
        ELSE CHOOSE k \in before : \A j \in before : j <= k

\* uv.py:668-702
UpdateReadmeWithScript(repo, name, script, doc) ==
    IF ScriptInReadme(name, doc) THEN doc
    ELSE IF MarkersMissing(doc) THEN CreateReadme(repo, name, script)
    ELSE SubSeq(doc, 1, TableEnd(doc) - 1)
         \o <<Newline>> \o NewRow(repo, name, script)
         \o SubSeq(doc, TableEnd(doc), Len(doc))

\* filenames of the scripts
ScriptNames == {"a.py", "b.py"}

\* the scripts of the updates: without and with a docstring
DocScripts == {<<>>, <<Quote, Quote, Quote, "Title", Quote, Quote, Quote, Newline>>}

\* the lines a document found in a repository is made of
DocLines ==
    { <<"Some notes">>,
      <<StartMarker>>,
      <<EndMarker>>,
      NewRow(RepoId, "a.py", <<>>),
      NewRow(RepoId, "b.py", <<>>) }

RECURSIVE Terminate(_)
\* each line followed by a newline
Terminate(lines) ==
    IF lines = <<>> THEN <<>>
    ELSE lines[1] \o <<Newline>> \o Terminate(Tail(lines))

Documents ==
    {Terminate(ls) : ls \in UNION {[1..n -> DocLines] : n \in 0..MaxDocLines}}

Templates ==
    {CreateReadme(RepoId, n, sc) : n \in ScriptNames, sc \in DocScripts}

DocInit ==
    /\ \/ readme \in Documents /\ from_template = FALSE
       \/ readme \in Templates /\ from_template = TRUE
    /\ existing_readme = <<>>
    /\ script_name = "none"
    /\ script_content = <<>>
    /\ nUpdates = 0
    /\ again = FALSE
    /\ deps = <<>>
    /\ description = <<>>
    /\ ext_pc = "off"
    /\ RunIdle
    /\ CliIdle
    /\ ConcIdle

\* uv.py:489-491: the update applied to the document, for a new entry
AddScript ==
    /\ nUpdates < MaxUpdates
    /\ \E name \in ScriptNames, script \in DocScripts :
        /\ nUpdates > 0 => <<name, script>> # <<script_name, script_content>>
        /\ script_name' = name
        /\ script_content' = script
        /\ readme' = UpdateReadmeWithScript(RepoId, name, script, readme)
    /\ existing_readme' = readme
    /\ nUpdates' = nUpdates + 1
    /\ again' = FALSE
    /\ UNCHANGED <<from_template, deps, description, ext_pc>>
    /\ UNCHANGED <<vars, cliVars, concVars>>

\* uv.py:489-491: the update applied once more for the same entry
AddScriptAgain ==
    /\ nUpdates > 0
    /\ nUpdates < MaxUpdates
    /\ readme' = UpdateReadmeWithScript(RepoId, script_name, script_content, readme)
    /\ existing_readme' = readme
    /\ nUpdates' = nUpdates + 1
    /\ again' = TRUE
    /\ UNCHANGED <<script_name, script_content, from_template, deps,
                   description, ext_pc>>
    /\ UNCHANGED <<vars, cliVars, concVars>>

DocNext ==
    \/ AddScript
    \/ AddScriptAgain

DocSpec == DocInit /\ [][DocNext]_allVars

-----------------------------------------------------------------------------
(* Vocabulary of the README properties *)

\* the first line of the document that holds the marker, 0 if none does
MarkerLine(doc, marker) ==
    LET lines == Split(doc, Newline)
        at == {i \in 1..Len(lines) : In(<<marker>>, lines[i])}
    IN  IF at = {} THEN 0 ELSE CHOOSE i \in at : \A j \in at : i <= j

\* one of the two markers is nowhere in the document
LacksMarker(doc) ==
    MarkerLine(doc, StartMarker) = 0 \/ MarkerLine(doc, EndMarker) = 0

\* the marker-delimited table: the lines between the two markers
TableLines(doc) ==
    LET from == MarkerLine(doc, StartMarker)
        to == MarkerLine(doc, EndMarker)
    IN  IF from = 0 \/ to = 0 \/ to < from THEN <<>>
        ELSE SubSeq(Split(doc, Newline), from + 1, to - 1)

\* the line is the table row of the script
IsRowOf(line, name) ==
    /\ Len(line) >= 3
    /\ SubSeq(line, 1, 3) = <<"| [", name, "]">>

\* the rows of the table that are the script's
RowsOf(doc, name) ==
    {i \in 1..Len(TableLines(doc)) : IsRowOf(TableLines(doc)[i], name)}

InTable(doc, name) == RowsOf(doc, name) # {}

\* the document with the row put on a line of its own before place k
WithRowBefore(doc, k, row) ==
    SubSeq(doc, 1, k - 1) \o row \o <<Newline>> \o SubSeq(doc, k, Len(doc))

-----------------------------------------------------------------------------
(* Properties of the README update *)

\* C11: applying the update a second time with the same entry gives the
\* document the first application gave, whatever the first document was.
C11_Idempotent == again => readme = existing_readme

\* the first application regenerated a document found without markers, the
\* second left it as it was
C11_Witness ==
    /\ again
    /\ nUpdates = 2
    /\ ~from_template
    /\ readme = CreateReadme(RepoId, script_name, script_content)

C13_RowBeforeEndMarker ==
    (/\ nUpdates > 0
     /\ ~LacksMarker(existing_readme)
     /\ ~InTable(existing_readme, script_name))
    => readme = WithRowBefore(existing_readme,
                              Find(existing_readme, <<EndMarker>>),
                              NewRow(RepoId, script_name, script_content))

\* C14: when a marker is missing and the document has no row of the
\* filename, the update returns the template rendered for the new script:
\* one row in its table, nothing of the document it was given.
C14_RegeneratedFromTemplate ==
    (/\ nUpdates > 0
     /\ LacksMarker(existing_readme)
     /\ ~ScriptInReadme(script_name, existing_readme))
    => /\ readme = CreateReadme(RepoId, script_name, script_content)
       /\ \A name \in ScriptNames :
            Cardinality(RowsOf(readme, name)) = IF name = script_name THEN 1 ELSE 0
       /\ ~In(<<"Some notes">>, readme)

\* a document with one marker, notes and the row of the other script,
\* replaced by the template
C14_Witness ==
    /\ nUpdates = 1
    /\ LacksMarker(existing_readme)
    /\ In(<<StartMarker>>, existing_readme)
    /\ In(<<"Some notes">>, existing_readme)
    /\ ScriptInReadme("b.py", existing_readme)
    /\ script_name = "a.py"
    /\ ~ScriptInReadme("b.py", readme)

-----------------------------------------------------------------------------
(***************************************************************************)
(* The process: the dispatcher (src/hfjobs/cli.py) and the handlers it     *)
(* could enter.  main registers `ps` and `run` only, so UvCommand and      *)
(* ScriptsCommand are also entered on their own, the way cli.py:22-23      *)
(* enters a handler.  argparse is the library it is: a command word that   *)
(* is not registered is an error it reports itself, with status 2.         *)
(***************************************************************************)

\* what the dispatcher and the script handlers leave alone
nonCli == <<vars, extVars, docVars, concVars>>

\* what no step of the process changes
inputVars ==
    <<entry, argv, args_repo, args_script, script_exists, config_repo, start>>

\* a variant of Registered with one more command word, one without handler
Registered_WithLogs == {"ps", "run", "logs"}

\* cli.py:12-13: the command words main registers
Registered == {"ps", "run"}

\* the command words with a handler in the repository
Commands == {"run", "ps", "scripts", "uv"}

\* run.py:36, uv.py:57-109: set_defaults(func=...) of the command word;
\* scripts.py:18-67 sets none
HandlerOf(word) ==
    CASE word = "run" -> "RunCommand"
      [] word = "uv" -> "UvCommand"
      [] word = "ps" -> "PsCommand"
      [] OTHER -> "none"

\* the number of arguments the handler's run takes besides self:
\* run.py:50 and uv.py:115 none, scripts.py:69 one
RunArity(class) == IF class = "ScriptsCommand" THEN 1 ELSE 0

\* an identifier without owner, and one with
BareName == <<"my-scripts">>

QualifiedName == <<"bob", "/", "my-scripts">>

\* the repository ./.hfjobs/config names, and the one the pointer names
ConfigRepo == <<"alice", "/", "site">>

LastRepo == <<"alice", "/", "last">>

\* uv.py:832-840: the identifier of a one-off repository
EphemeralRepo == <<Username, "/", "hfjobs-uv-run-", "20250101-000000", "-", "0a1b2c3d">>

\* the repositories the platform may hold before the command
KnownRepos ==
    {<<Username, "/">> \o BareName, QualifiedName, ConfigRepo, LastRepo, BareName}

\* uv.py:505 with the default of --python (uv.py:102)
UvImage == <<"ghcr.io/astral-sh/uv:python", "3.12", "-bookworm-slim">>

ScriptFile == "a.py"

Usage == "usage: hfjobs <command> [<args>]"

Said(to, text) == [to |-> to, text |-> text]

\* a variant of NeedsWhoami that always looks the caller up
NeedsWhoami_Always(id) == TRUE

\* uv.py:131, 826 (scripts.py:82): "/" not in repo_id
NeedsWhoami(id) == ~In(<<"/">>, id)

\* uv.py:132-135, 825-829 (scripts.py:83-85), once whoami has answered
Qualified(id) == IF NeedsWhoami(id) THEN <<Username, "/">> \o id ELSE id

CliInit ==
    /\ pc = "off"
    /\ docker_image = <<>>
    /\ command = <<>>
    /\ detach = FALSE
    /\ token_valid \in BOOLEAN
    /\ input_json = <<>>
    /\ username = <<>>
    /\ resp = NoResponse
    /\ job_id = <<>>
    /\ logging_finished = FALSE
    /\ job_finished = FALSE
    /\ log = <<>>
    /\ job_status = <<>>
    /\ stream = <<>>
    /\ stdout = <<>>
    /\ err = "none"
    /\ req = "none"
    /\ nPost = 0
    /\ nLogs = 0
    /\ nStatus = 0
    /\ ExtIdle
    /\ DocIdle
    /\ ConcIdle
    /\ \/ /\ entry = "main"
          /\ argv \in {<<>>, <<"run">>, <<"ps">>, <<"uv">>, <<"scripts">>, <<"logs">>}
          /\ args_repo = <<>>
          /\ args_script = <<>>
          /\ script_exists = FALSE
          /\ config_repo = <<>>
          /\ last_repo = <<>>
          /\ dir_exists = FALSE
          /\ hub_repos = {}
          /\ cli_pc = "parse"
       \/ /\ entry = "UvCommand"
          /\ argv = <<"uv", "init">>
          /\ args_repo \in {<<BareName>>, <<QualifiedName>>}
          /\ args_script \in {<<>>, <<ScriptFile>>}
          /\ script_exists \in BOOLEAN
          /\ config_repo = <<>>
          /\ last_repo \in {<<>>, <<LastRepo>>}
          /\ dir_exists \in BOOLEAN
          /\ hub_repos \in {{}, KnownRepos}
          /\ cli_pc = "enter"
       \/ /\ entry = "ScriptsCommand"
          /\ argv = <<"scripts", "init">>
          /\ args_repo \in {<<BareName>>, <<QualifiedName>>}
          /\ args_script \in {<<>>, <<ScriptFile>>}
          /\ script_exists \in BOOLEAN
          /\ config_repo = <<>>
          /\ last_repo \in {<<>>, <<LastRepo>>}
          /\ dir_exists = FALSE
          /\ hub_repos \in {{}, KnownRepos}
          /\ cli_pc = "enter"
       \/ /\ entry = "UvCommand"
          /\ argv \in {<<"uv", "push">>, <<"uv", "run">>}
          /\ args_repo \in {<<>>, <<BareName>>, <<QualifiedName>>}
          /\ args_script = <<ScriptFile>>
          /\ script_exists \in BOOLEAN
          /\ config_repo \in {<<>>, <<ConfigRepo>>}
          /\ last_repo \in {<<>>, <<LastRepo>>}
          /\ dir_exists = FALSE
          /\ hub_repos \in {{}, KnownRepos}
          /\ cli_pc = "enter"
       \/ /\ entry = "UvCommand"
          /\ argv \in {<<"uv", "sync">>, <<"uv", "sync", "--dry-run">>}
          /\ args_repo = <<>>
          /\ args_script = <<ScriptFile>>
          /\ script_exists \in BOOLEAN
          /\ config_repo \in {<<>>, <<ConfigRepo>>}
          /\ last_repo \in {<<>>, <<LastRepo>>}
          /\ dir_exists = FALSE
          /\ hub_repos \in {{}, KnownRepos}
          /\ cli_pc = "enter"
       \/ /\ entry = "ScriptsCommand"
          /\ argv = <<"scripts", "push">>
          /\ args_repo \in {<<>>, <<BareName>>, <<QualifiedName>>}
          /\ args_script = <<ScriptFile>>
          /\ script_exists \in BOOLEAN
          /\ config_repo = <<>>
          /\ last_repo \in {<<>>, <<LastRepo>>}
          /\ dir_exists = FALSE
          /\ hub_repos \in {{}, KnownRepos}
          /\ cli_pc = "enter"
    /\ hub_files = {}
    /\ repo_id = <<>>
    /\ nWhoami = 0
    /\ handler = "none"
    /\ run_args = -1
    /\ messages = <<>>
    /\ exit_status = -1
    /\ start = Persistent(last_repo, dir_exists, hub_repos, hub_files)

\* the handlers' prints other than their error messages are not recorded

\* uv.py:130-135, 824-829 (scripts.py:81-85): the identifier made complete,
\* with the identity lookup it takes; whoami raises without a valid token
ResolveRepo(id, next) ==
    IF NeedsWhoami(id)
    THEN /\ nWhoami' = nWhoami + 1
         /\ IF token_valid
            THEN repo_id' = <<Qualified(id)>> /\ cli_pc' = next
            ELSE repo_id' = repo_id /\ cli_pc' = "raised"
    ELSE /\ nWhoami' = nWhoami
         /\ repo_id' = <<Qualified(id)>>
         /\ cli_pc' = next

\* a handler reports a user error and returns
ReportError(text) ==
    /\ messages' = Append(messages, Said("stdout", text))
    /\ cli_pc' = "returned"

\* cli.py:16-19: no command word (or one whose parser sets no func):
\* parser.print_help() and exit(1)
MissingCommand ==
    /\ cli_pc = "parse"
    /\ IF argv = <<>> THEN TRUE
       ELSE argv[1] \in Registered /\ HandlerOf(argv[1]) = "none"
    /\ messages' = Append(messages, Said("stdout", Usage))
    /\ exit_status' = 1
    /\ cli_pc' = "exited"
    /\ UNCHANGED <<last_repo, dir_exists, hub_repos, hub_files, repo_id,
                  nWhoami, handler, run_args>>
    /\ UNCHANGED <<inputVars, nonCli>>

\* cli.py:16: parse_args on a command word that is not registered:
\* argparse prints the usage and the error on stderr and exits with status 2
UnknownCommand ==
    /\ cli_pc = "parse"
    /\ argv # <<>>
    /\ argv[1] \notin Registered
    /\ messages' = messages \o <<Said("stderr", Usage),
                                 Said("stderr", "hfjobs: error: invalid choice")>>
    /\ exit_status' = 2
    /\ cli_pc' = "exited"
    /\ UNCHANGED <<last_repo, dir_exists, hub_repos, hub_files, repo_id,
                  nWhoami, handler, run_args>>
    /\ UNCHANGED <<inputVars, nonCli>>

\* cli.py:22: service = args.func(args); RunCommand.__init__ (run.py:38-47)
\* reads the image and the flags
Construct ==
    /\ cli_pc = "parse"
    /\ argv # <<>>
    /\ argv[1] \in Registered
    /\ HandlerOf(argv[1]) # "none"
    /\ handler' = HandlerOf(argv[1])
    /\ IF HandlerOf(argv[1]) = "RunCommand"
       THEN docker_image' \in Images /\ command' = Command /\ detach' \in BOOLEAN
       ELSE docker_image' = docker_image /\ command' = command /\ detach' = detach
    /\ cli_pc' = "constructed"
    /\ UNCHANGED <<last_repo, dir_exists, hub_repos, hub_files, repo_id,
                  nWhoami, run_args, messages, exit_status>>
    /\ UNCHANGED <<pc, token_valid, input_json, username, resp, job_id,
                  logging_finished, job_finished, log, job_status, stream,
                  stdout, err, req, nPost, nLogs, nStatus>>
    /\ UNCHANGED <<inputVars, extVars, docVars, concVars>>

\* cli.py:23: service.run()
ServiceRun ==
    /\ cli_pc = "constructed"
    /\ run_args' = 0
    /\ IF handler = "RunCommand"
       THEN pc' = "build" /\ cli_pc' = "running"
       ELSE pc' = pc /\ cli_pc' = "ps"
    /\ UNCHANGED <<last_repo, dir_exists, hub_repos, hub_files, repo_id,
                  nWhoami, handler, messages, exit_status>>
    /\ UNCHANGED <<docker_image, command, detach, token_valid, input_json, username,
                  resp, job_id, logging_finished, job_finished, log,
                  job_status, stream, stdout, err, req, nPost, nLogs,
                  nStatus>>
    /\ UNCHANGED <<inputVars, extVars, docVars, concVars>>

\* PsCommand.run (commands/ps.py): lists the jobs; it returns or raises
PsRun ==
    /\ cli_pc = "ps"
    /\ cli_pc' \in {"returned", "raised"}
    /\ UNCHANGED <<last_repo, dir_exists, hub_repos, hub_files, repo_id,
                  nWhoami, handler, run_args, messages, exit_status>>
    /\ UNCHANGED <<inputVars, nonCli>>

\* uv.py:111-124, scripts.py:69-74: the handler entered on its own, and the
\* branch of its run the second command word takes
EnterHandler ==
    /\ cli_pc = "enter"
    /\ handler' = entry
    /\ run_args' = RunArity(entry)
    /\ cli_pc' = CASE argv = <<"uv", "init">> -> "uv_init"
                   [] argv = <<"uv", "push">> -> "uv_push"
                   [] argv = <<"uv", "run">> -> "uv_run"
                   [] argv = <<"uv", "sync">> -> "uv_sync"
                   [] argv = <<"uv", "sync", "--dry-run">> -> "uv_sync"
                   [] argv = <<"scripts", "init">> -> "scripts_init"
                   [] argv = <<"scripts", "push">> -> "scripts_push"
    /\ UNCHANGED <<last_repo, dir_exists, hub_repos, hub_files, repo_id,
                  nWhoami, messages, exit_status>>
    /\ UNCHANGED <<inputVars, nonCli>>

\* uv.py:130-135
UvInitResolve ==
    /\ cli_pc = "uv_init"
    /\ ResolveRepo(args_repo[1], "uv_init_create")
    /\ UNCHANGED <<last_repo, dir_exists, hub_repos, hub_files, handler,
                  run_args, messages, exit_status>>
    /\ UNCHANGED <<inputVars, nonCli>>

\* a variant of UvInitCreate that creates with exist_ok=True
UvInitCreate_ExistOk ==
    /\ cli_pc = "uv_init_create"
    /\ IF dir_exists
       THEN /\ ReportError("Error: Directory already exists")
            /\ UNCHANGED <<hub_repos, dir_exists>>
       ELSE /\ hub_repos' = hub_repos \cup {repo_id[1]}
            /\ dir_exists' = TRUE
            /\ messages' = messages
            /\ cli_pc' = "uv_init_upload"
    /\ UNCHANGED <<last_repo, hub_files, repo_id, nWhoami, handler,
                  run_args, exit_status>>
    /\ UNCHANGED <<inputVars, nonCli>>

\* uv.py:137-166: the local directory and the repository are created
UvInitCreate ==
    /\ cli_pc = "uv_init_create"
    /\ IF dir_exists
       THEN /\ ReportError("Error: Directory already exists")
            /\ UNCHANGED <<hub_repos, dir_exists>>
       ELSE IF repo_id[1] \in hub_repos
       THEN /\ ReportError("Error: Repository already exists")
            /\ UNCHANGED <<hub_repos, dir_exists>>
       ELSE /\ hub_repos' = hub_repos \cup {repo_id[1]}
            /\ dir_exists' = TRUE
            /\ messages' = messages
            /\ cli_pc' = "uv_init_upload"
    /\ UNCHANGED <<last_repo, hub_files, repo_id, nWhoami, handler,
                  run_args, exit_status>>
    /\ UNCHANGED <<inputVars, nonCli>>

\* uv.py:168-235: the script (or the template script) and the README are
\* uploaded, the pointer is saved
UvInitUpload ==
    /\ cli_pc = "uv_init_upload"
    /\ IF args_script # <<>> /\ ~script_exists
       THEN /\ ReportError("Error: Script not found")
            /\ UNCHANGED <<hub_files, last_repo>>
       ELSE /\ hub_files' = hub_files \cup
                  {<<repo_id[1], IF args_script = <<>> THEN "script.py" ELSE args_script[1]>>,
                   <<repo_id[1], "README.md">>}
            /\ last_repo' = repo_id
            /\ messages' = messages
            /\ cli_pc' = "returned"
    /\ UNCHANGED <<dir_exists, hub_repos, repo_id, nWhoami, handler,
                  run_args, exit_status>>
    /\ UNCHANGED <<inputVars, nonCli>>

\* scripts.py:80-85
ScriptsInitResolve ==
    /\ cli_pc = "scripts_init"
    /\ ResolveRepo(args_repo[1], "scripts_init_create")
    /\ UNCHANGED <<last_repo, dir_exists, hub_repos, hub_files, handler,
                  run_args, messages, exit_status>>
    /\ UNCHANGED <<inputVars, nonCli>>

\* scripts.py:87-100
ScriptsInitCreate ==
    /\ cli_pc = "scripts_init_create"
    /\ IF repo_id[1] \in hub_repos
       THEN /\ ReportError("Error: Repository already exists")
            /\ UNCHANGED hub_repos
       ELSE /\ hub_repos' = hub_repos \cup {repo_id[1]}
            /\ messages' = messages
            /\ cli_pc' = "scripts_init_upload"
    /\ UNCHANGED <<last_repo, dir_exists, hub_files, repo_id, nWhoami,
                  handler, run_args, exit_status>>
    /\ UNCHANGED <<inputVars, nonCli>>

\* scripts.py:102-154
ScriptsInitUpload ==
    /\ cli_pc = "scripts_init_upload"
    /\ IF args_script # <<>> /\ ~script_exists
       THEN /\ ReportError("Error: Script not found")
            /\ UNCHANGED <<hub_files, last_repo>>
       ELSE /\ hub_files' = hub_files \cup
                  {<<repo_id[1], IF args_script = <<>> THEN "script.py" ELSE args_script[1]>>,
                   <<repo_id[1], "README.md">>}
            /\ last_repo' = repo_id
            /\ messages' = messages
            /\ cli_pc' = "returned"
    /\ UNCHANGED <<dir_exists, hub_repos, repo_id, nWhoami, handler,
                  run_args, exit_status>>
    /\ UNCHANGED <<inputVars, nonCli>>

\* uv.py:241-259: the repository of a push: the local config, else --repo,
\* else the pointer
UvPushSelect ==
    /\ cli_pc = "uv_push"
    /\ IF config_repo # <<>>
       THEN repo_id' = config_repo /\ messages' = messages /\ cli_pc' = "uv_push_upload"
       ELSE IF args_repo # <<>>
       THEN repo_id' = args_repo /\ messages' = messages /\ cli_pc' = "uv_push_upload"
       ELSE IF last_repo # <<>>
       THEN repo_id' = last_repo /\ messages' = messages /\ cli_pc' = "uv_push_upload"
       ELSE repo_id' = repo_id /\ ReportError("Error: No repository specified")
    /\ UNCHANGED <<last_repo, dir_exists, hub_repos, hub_files, nWhoami,
                  handler, run_args, exit_status>>
    /\ UNCHANGED <<inputVars, nonCli>>

\* uv.py:261-324: the README is uploaded again only where the repository has
\* one, so the set of files gains the script alone
UvPushUpload ==
    /\ cli_pc = "uv_push_upload"
    /\ IF ~script_exists
       THEN ReportError("Error: Script not found") /\ hub_files' = hub_files
       ELSE IF repo_id[1] \notin hub_repos
       THEN ReportError("Error: Repository not found") /\ hub_files' = hub_files
       ELSE /\ hub_files' = hub_files \cup {<<repo_id[1], args_script[1]>>}
            /\ messages' = messages
            /\ cli_pc' = "returned"
    /\ UNCHANGED <<last_repo, dir_exists, hub_repos, repo_id, nWhoami,
                  handler, run_args, exit_status>>
    /\ UNCHANGED <<inputVars, nonCli>>

\* scripts.py:160-165
ScriptsPushSelect ==
    /\ cli_pc = "scripts_push"
    /\ IF args_repo # <<>>
       THEN repo_id' = args_repo /\ messages' = messages /\ cli_pc' = "scripts_push_upload"
       ELSE IF last_repo # <<>>
       THEN repo_id' = last_repo /\ messages' = messages /\ cli_pc' = "scripts_push_upload"
       ELSE repo_id' = repo_id /\ ReportError("Error: No repository specified")
    /\ UNCHANGED <<last_repo, dir_exists, hub_repos, hub_files, nWhoami,
                  handler, run_args, exit_status>>
    /\ UNCHANGED <<inputVars, nonCli>>

\* scripts.py:167-224
ScriptsPushUpload ==
    /\ cli_pc = "scripts_push_upload"
    /\ IF ~script_exists
       THEN ReportError("Error: Script not found") /\ hub_files' = hub_files
       ELSE IF repo_id[1] \notin hub_repos
       THEN ReportError("Error: Repository not found") /\ hub_files' = hub_files
       ELSE /\ hub_files' = hub_files \cup {<<repo_id[1], args_script[1]>>}
            /\ messages' = messages
            /\ cli_pc' = "returned"
    /\ UNCHANGED <<last_repo, dir_exists, hub_repos, repo_id, nWhoami,
                  handler, run_args, exit_status>>
    /\ UNCHANGED <<inputVars, nonCli>>

\* uv.py:331-375: the repository of the local config and the files to
\* sync; without config the command stops, as it does without files and
\* with --dry-run
UvSyncCheck ==
    /\ cli_pc = "uv_sync"
    /\ IF config_repo = <<>>
       THEN repo_id' = repo_id /\ ReportError("Error: Not in a UV directory")
       ELSE IF ~script_exists
       THEN /\ repo_id' = config_repo
            /\ messages' = Append(messages, Said("stdout", "No files to sync"))
            /\ cli_pc' = "returned"
       ELSE /\ repo_id' = config_repo
            /\ messages' = messages
            /\ cli_pc' = IF argv = <<"uv", "sync", "--dry-run">>
                         THEN "returned" ELSE "uv_sync_upload"
    /\ UNCHANGED <<last_repo, dir_exists, hub_repos, hub_files, nWhoami,
                  handler, run_args, exit_status>>
    /\ UNCHANGED <<inputVars, nonCli>>

\* uv.py:377-430: each file is uploaded (upload_file raises for a
\* repository that is not there), then the README where it lacks a script
UvSyncUpload ==
    /\ cli_pc = "uv_sync_upload"
    /\ IF repo_id[1] \notin hub_repos
       THEN hub_files' = hub_files /\ cli_pc' = "raised"
       ELSE /\ hub_files' = hub_files \cup {<<repo_id[1], args_script[1]>>}
            /\ cli_pc' = "returned"
    /\ UNCHANGED <<last_repo, dir_exists, hub_repos, repo_id, nWhoami,
                  handler, run_args, messages, exit_status>>
    /\ UNCHANGED <<inputVars, nonCli>>

\* uv.py:436-440
UvRunCheck ==
    /\ cli_pc = "uv_run"
    /\ IF ~script_exists
       THEN ReportError("Error: Script not found")
       ELSE messages' = messages /\ cli_pc' = "uv_run_repo"
    /\ UNCHANGED <<last_repo, dir_exists, hub_repos, hub_files, repo_id,
                  nWhoami, handler, run_args, exit_status>>
    /\ UNCHANGED <<inputVars, nonCli>>

\* uv.py:443, 809-840: _determine_repository: the local config first, then
\* --repo, then a one-off repository of the caller
UvRunDetermine ==
    /\ cli_pc = "uv_run_repo"
    /\ IF config_repo # <<>>
       THEN repo_id' = config_repo /\ nWhoami' = nWhoami /\ cli_pc' = "uv_run_upload"
       ELSE IF args_repo # <<>>
       THEN ResolveRepo(args_repo[1], "uv_run_upload")
       ELSE /\ nWhoami' = nWhoami + 1
            /\ IF token_valid
               THEN repo_id' = <<EphemeralRepo>> /\ cli_pc' = "uv_run_upload"
               ELSE repo_id' = repo_id /\ cli_pc' = "raised"
    /\ UNCHANGED <<last_repo, dir_exists, hub_repos, hub_files, handler,
                  run_args, messages, exit_status>>
    /\ UNCHANGED <<inputVars, nonCli>>

\* uv.py:446-452: the repository is created if it is not there
UvRunEnsureRepo ==
    /\ cli_pc = "uv_run_upload"
    /\ hub_repos' = hub_repos \cup {repo_id[1]}
    /\ cli_pc' = "uv_run_script"
    /\ UNCHANGED <<last_repo, dir_exists, hub_files, repo_id, nWhoami,
                  handler, run_args, messages, exit_status>>
    /\ UNCHANGED <<inputVars, nonCli>>

\* a variant of UvRunUploadScript that goes on without the upload
UvRunUploadScript_Skipped ==
    /\ cli_pc = "uv_run_script"
    /\ hub_files' = hub_files
    /\ cli_pc' = "uv_run_readme"
    /\ UNCHANGED <<last_repo, dir_exists, hub_repos, repo_id, nWhoami,
                  handler, run_args, messages, exit_status>>
    /\ UNCHANGED <<inputVars, nonCli>>

\* uv.py:454-467: the script is uploaded under its own filename
UvRunUploadScript ==
    /\ cli_pc = "uv_run_script"
    /\ hub_files' = hub_files \cup {<<repo_id[1], args_script[1]>>}
    /\ cli_pc' = "uv_run_readme"
    /\ UNCHANGED <<last_repo, dir_exists, hub_repos, repo_id, nWhoami,
                  handler, run_args, messages, exit_status>>
    /\ UNCHANGED <<inputVars, nonCli>>

\* uv.py:474-502: the README (minimal, updated or new) is uploaded
UvRunUploadReadme ==
    /\ cli_pc = "uv_run_readme"
    /\ hub_files' = hub_files \cup {<<repo_id[1], "README.md">>}
    /\ cli_pc' = "uv_run_job"
    /\ UNCHANGED <<last_repo, dir_exists, hub_repos, repo_id, nWhoami,
                  handler, run_args, messages, exit_status>>
    /\ UNCHANGED <<inputVars, nonCli>>

\* uv.py:469: script_url
ScriptUrl(repo, filename) ==
    <<"https://huggingface.co/datasets/">> \o repo \o <<"/resolve/main/", filename>>

\* uv.py:505-525: RunCommand(run_args).run()
UvRunStartJob ==
    /\ cli_pc = "uv_run_job"
    /\ docker_image' = UvImage
    /\ command' = <<"uv", "run", ScriptUrl(repo_id[1], args_script[1])>>
    /\ detach' \in BOOLEAN
    /\ pc' = "build"
    /\ cli_pc' = "running"
    /\ UNCHANGED <<last_repo, dir_exists, hub_repos, hub_files, repo_id,
                  nWhoami, handler, run_args, messages, exit_status>>
    /\ UNCHANGED <<token_valid, input_json, username, resp, job_id,
                  logging_finished, job_finished, log, job_status, stream,
                  stdout, err, req, nPost, nLogs, nStatus>>
    /\ UNCHANGED <<inputVars, extVars, docVars, concVars>>

\* cli.py:23-26: run has returned (status 0) or raised (status 1), in the
\* handler itself or in the job it started
ProcessExit ==
    /\ \/ cli_pc \in {"returned", "raised"}
       \/ cli_pc = "running" /\ Terminated
    /\ exit_status' = IF cli_pc = "raised" \/ pc = "raised" THEN 1 ELSE 0
    /\ cli_pc' = "exited"
    /\ UNCHANGED <<last_repo, dir_exists, hub_repos, hub_files, repo_id,
                  nWhoami, handler, run_args, messages>>
    /\ UNCHANGED <<inputVars, nonCli>>

CliNext ==
    \/ MissingCommand
    \/ UnknownCommand
    \/ Construct
    \/ ServiceRun
    \/ PsRun
    \/ EnterHandler
    \/ UvInitResolve
    \/ UvInitCreate
    \/ UvInitUpload
    \/ ScriptsInitResolve
    \/ ScriptsInitCreate
    \/ ScriptsInitUpload
    \/ UvPushSelect
    \/ UvPushUpload
    \/ ScriptsPushSelect
    \/ ScriptsPushUpload
    \/ UvRunCheck
    \/ UvRunDetermine
    \/ UvRunEnsureRepo
    \/ UvRunUploadScript
    \/ UvRunUploadReadme
    \/ UvSyncCheck
    \/ UvSyncUpload
    \/ UvRunStartJob
    \/ ProcessExit
    \/ BuildJson
    \/ Whoami
    \/ SubmitJob
    \/ AfterSubmit
    \/ OpenStream
    \/ ReadLine
    \/ CloseStream
    \/ GetStatus
    \/ Sleep

CliSpec == CliInit /\ [][CliNext]_allVars

-----------------------------------------------------------------------------
(* Vocabulary of the process properties *)

\* the handler class the repository has for the command word
HandlerClass(word) ==
    CASE word = "run" -> "RunCommand"
      [] word = "ps" -> "PsCommand"
      [] word = "scripts" -> "ScriptsCommand"
      [] word = "uv" -> "UvCommand"
      [] OTHER -> "none"

Exited == cli_pc = "exited"

\* the command line names no command, or one the repository does not have
NoCommand == argv = <<>>

UnknownWord == argv # <<>> /\ argv[1] \notin Commands

UsagePrinted == \E i \in 1..Len(messages) : messages[i].text = Usage

\* the handler has reported one of its user errors
ErrorTexts ==
    {"Error: Script not found", "Error: Repository not found",
     "Error: No repository specified", "Error: Repository already exists",
     "Error: Directory already exists", "Error: Not in a UV directory"}

ErrorReported == \E i \in 1..Len(messages) : messages[i].text \in ErrorTexts

\* the job the process followed has ended in failure
JobFailed == HasStatus /\ job_status.status.stage = "ERROR"

\* the command has done what it was asked: the script is in the repository
\* and, where a job was started, its run has returned without a failed job
Succeeded ==
    /\ handler # "none"
    /\ ~ErrorReported
    /\ ~JobFailed
    /\ \/ pc = "returned"
       \/ /\ pc = "off"
          /\ argv \in {<<"uv", "init">>, <<"uv", "push">>,
                       <<"scripts", "init">>, <<"scripts", "push">>}
          /\ \E f \in hub_files : f[1] = repo_id[1] /\ f[2] # "README.md"

\* the command is an init, or a `uv run --repo`
ResolvingCommand ==
    /\ args_repo # <<>>
    /\ argv \in {<<"uv", "init">>, <<"scripts", "init">>, <<"uv", "run">>}

\* the identifier the claim describes
ExpectedRepo ==
    IF In(<<"/">>, args_repo[1]) THEN args_repo[1]
    ELSE <<Username, "/">> \o args_repo[1]

-----------------------------------------------------------------------------
(* Properties of the process *)

C18_ExitStatus ==
    Exited =>
        /\ Succeeded => exit_status = 0
        /\ (ErrorReported \/ JobFailed) => exit_status = 1

C20_EachCommandDispatched ==
    (entry = "main" /\ argv # <<>> /\ Exited) =>
        (argv[1] \in Commands =>
            /\ handler = HandlerClass(argv[1])
            /\ run_args = 0)

-----------------------------------------------------------------------------
(* The monitor and the job's stages *)

\* C26: the monitor is done with nothing printed only if the last status
\* answer it got reports a completed or failed job: a pending job, like an
\* answer without a status field, keeps it polling.
C26_DoneOnlyOnTerminal ==
    (pc = "returned" /\ ~detach /\ stdout = <<>>) => TerminalSeen


-----------------------------------------------------------------------------
(* What a script command leaves behind *)

\* the pointer, the local directory and the platform's repositories and
\* files as they stand
Current == Persistent(last_repo, dir_exists, hub_repos, hub_files)

\* the messages for a missing repository, script file or local config
NotFoundTexts ==
    {"Error: Script not found", "Error: Repository not found",
     "Error: No repository specified", "Error: Not in a UV directory"}

NotFoundReported ==
    \E i \in 1..Len(messages) : messages[i].text \in NotFoundTexts

\* C21: a script command that has reported a missing repository, script
\* file or local config has had no side effect: no repository created, no
\* file uploaded, no local directory or config written, the pointer as it
\* was.
C21_NotFoundNoSideEffects == NotFoundReported => Current = start

\* the repositories the command has created
Created == hub_repos \ start.hub_repos

\* C22: when a command has ended, the pointer names the repository the
\* command created, if it created one (init, or `uv run`), and holds what
\* it held before the command otherwise.
C22_PointerIsLastCreation ==
    Exited =>
        /\ \A r \in Created : last_repo = <<r>>
        /\ Created = {} => last_repo = start.last_repo

\* the files the command has uploaded
Uploaded == hub_files \ start.hub_files

\* the repository a push is to go to: the one --repo names, else the one
\* the pointer names, <<>> with neither
PushTarget == IF args_repo # <<>> THEN args_repo ELSE start.last_repo

\* C23: a push uploads to the repository --repo names whenever --repo is
\* given and to the repository the pointer names when it is not; with
\* neither it reports an error and uploads nothing.
C23_PushTarget ==
    argv \in {<<"uv", "push">>, <<"scripts", "push">>} =>
        /\ \A f \in Uploaded : PushTarget # <<>> /\ f[1] = PushTarget[1]
        /\ (PushTarget = <<>> /\ cli_pc \in {"returned", "exited"}) =>
               (ErrorReported /\ Uploaded = {})

\* the command is an init and the identifier it is given is taken
InitOnTaken ==
    /\ argv \in {<<"uv", "init">>, <<"scripts", "init">>}
    /\ ExpectedRepo \in start.hub_repos

AlreadyExistsReported ==
    \E i \in 1..Len(messages) :
        messages[i].text \in {"Error: Repository already exists",
                              "Error: Directory already exists"}

\* C24: an init on an identifier that is taken leaves everything as it
\* was (no file uploaded, no local directory or config, the pointer as
\* before), and when its handler returns it has reported 'already exists'.
C24_TakenLeavesAllUnchanged ==
    InitOnTaken =>
        /\ Current = start
        /\ cli_pc = "returned" => AlreadyExistsReported

\* `uv init bob/my-scripts` on a taken identifier, with the pointer of an
\* earlier init, has reported the error and returned
C24_Witness ==
    /\ argv = <<"uv", "init">>
    /\ args_repo = <<QualifiedName>>
    /\ QualifiedName \in start.hub_repos
    /\ start.last_repo = <<LastRepo>>
    /\ last_repo = <<LastRepo>>
    /\ cli_pc = "returned"
    /\ messages = <<Said("stdout", "Error: Repository already exists")>>
    /\ hub_files = {}

\* the script and the README of the repository the command resolved
ScriptUploaded == repo_id # <<>> /\ <<repo_id[1], args_script[1]>> \in Uploaded

ReadmeUploaded == repo_id # <<>> /\ <<repo_id[1], "README.md">> \in Uploaded

\* RunCommand has been entered for the job of `uv run`
JobStarted == pc # "off"

\* C27: in `uv run` the steps come in one order: the script file is
\* checked, the repository resolved and made to exist, the script
\* uploaded, the README uploaded, the job submitted.  So a job-creation
\* request is issued only with the script uploaded to the repository its
\* command URL names, and with the script file missing no repository is
\* created, nothing is uploaded and no job is submitted.
C27_UploadBeforeJob ==
    argv = <<"uv", "run">> =>
        /\ repo_id # <<>> => script_exists
        /\ Created # {} => (repo_id # <<>> /\ Created = {repo_id[1]})
        /\ Uploaded # {} => (repo_id # <<>> /\ repo_id[1] \in hub_repos)
        /\ ReadmeUploaded => ScriptUploaded
        /\ JobStarted => (ScriptUploaded /\ ReadmeUploaded)
        /\ nPost > 0 =>
               /\ JobStarted
               /\ input_json.command =
                      <<"uv", "run", ScriptUrl(repo_id[1], args_script[1])>>
        /\ ~script_exists => (Current = start /\ ~JobStarted /\ nPost = 0)

\* `uv run a.py` has uploaded a.py and the README to a one-off repository
\* it created and has submitted the job that runs the script from there
C27_Witness ==
    /\ argv = <<"uv", "run">>
    /\ repo_id = <<EphemeralRepo>>
    /\ Created = {EphemeralRepo}
    /\ Uploaded = {<<EphemeralRepo, "a.py">>, <<EphemeralRepo, "README.md">>}
    /\ nPost = 1
    /\ input_json.command = <<"uv", "run", ScriptUrl(EphemeralRepo, "a.py")>>

-----------------------------------------------------------------------------
(***************************************************************************)
(* push and the README sections (src/hfjobs/commands/uv.py:288-321 and     *)
(* 704-760; scripts.py:188-221 and 324-384 add a dependencies line to the  *)
(* block).  Two invocations push one script each to the same repository;   *)
(* each network call is a step of its own.  The repository has a README,   *)
(* as every repository init or `uv run` made has.  A filename is a         *)
(* sequence of tokens, so that one name can be part of another.            *)
(***************************************************************************)

\* lines a README found in the repository has at most
MaxSecLines == 4

Invocations == {1, 2}

\* what the two pushes leave alone
nonPush == <<vars, extVars, docVars, cliVars, ptrVars>>

\* str.split(sep) for a separator of several tokens
RECURSIVE SplitOn(_, _)
SplitOn(s, sep) ==
    LET k == Find(s, sep)
    IN  IF k = 0 THEN <<s>>
        ELSE <<SubSeq(s, 1, k - 1)>>
             \o SplitOn(SubSeq(s, k + Len(sep), Len(s)), sep)

\* uv.py:712, 725
ScriptsHeading == <<"## ", "Scripts">>

\* uv.py:714
FooterMarker == <<"---", Newline, "*Created with">>

\* uv.py:720
DefaultFooter ==
    <<Newline, "---", Newline, "*Created with",
      " [hfjobs](https://github.com/huggingface/hfjobs)*", Newline>>

\* uv.py:730: r'\n## '
NextSectionPattern == <<Newline, "## ">>

\* uv.py:731: r'\n---\n\*Created with'
FooterPattern == <<Newline, "---", Newline, "*Created with">>

\* uv.py:748-758: script_info
ScriptInfo(repo, name, script) ==
    <<Newline, "### ">> \o name \o <<Newline>>
    \o (IF ExtractDescription(script) = <<>> THEN <<>>
        ELSE ExtractDescription(script)[1] \o <<Newline, Newline>>)
    \o <<Backtick, Backtick, Backtick, "bash", Newline,
         "hfjobs run ghcr.io/astral-sh/uv:python3.12 \\", Newline,
         "  uv run ", "https://huggingface.co/datasets/">>
    \o repo \o <<"/resolve/main/">> \o name
    \o <<Newline, Backtick, Backtick, Backtick, Newline>>

\* uv.py:704-760: _update_readme_for_new_script
UpdateReadmeForNewScript(doc, repo, name, script) ==
    LET info == ScriptInfo(repo, name, script)
    IN  IF ~In(ScriptsHeading, doc)
        THEN LET split == In(FooterMarker, doc)
                 before_footer ==
                     IF split THEN SplitOn(doc, FooterMarker)[1] ELSE doc
                 footer ==
                     IF split
                     THEN FooterMarker \o SplitOn(doc, FooterMarker)[2]
                     ELSE DefaultFooter
             IN  before_footer \o <<Newline>> \o ScriptsHeading
                 \o <<Newline, Newline>> \o info \o footer
        ELSE LET parts == SplitOn(doc, ScriptsHeading)
                 before_scripts == parts[1] \o ScriptsHeading
                 remaining == parts[2]
                 next_section == Find(remaining, NextSectionPattern)
                 footer_match == Find(remaining, FooterPattern)
                 cut == IF next_section # 0 THEN next_section
                        ELSE IF footer_match # 0 THEN footer_match
                        ELSE Len(remaining) + 1
             IN  before_scripts \o SubSeq(remaining, 1, cut - 1)
                 \o info \o SubSeq(remaining, cut, Len(remaining))

\* uv.py:309: script_name not in readme_content
IsNewScript(name, doc) == ~In(name, doc)

\* the filenames the two invocations push, and a third one the README may
\* document already
PushedName(p) == IF p = 1 THEN <<"a.py">> ELSE <<"b.py">>

OtherName == <<"dat", "a.py">>

\* the lines a README found in the repository is made of
SecLines ==
    { <<"Some notes">>,
      ScriptsHeading,
      <<"## ", "Usage">>,
      <<"---">>,
      <<"*Created with", " [hfjobs](https://github.com/huggingface/hfjobs)*">>,
      <<"### ">> \o OtherName }

SecDocuments ==
    {Terminate(ls) : ls \in UNION {[1..n -> SecLines] : n \in 0..MaxSecLines}}

PushInit ==
    /\ hub_readme \in SecDocuments
    /\ hub_scripts = {}
    /\ \E sc \in DocScripts :
        push = [p \in Invocations |->
                  [pc |-> "upload",
                   script_name |-> PushedName(p),
                   script_content |-> IF p = 1 THEN sc ELSE <<>>,
                   readme_content |-> <<>>,
                   uploaded |-> <<>>]]
    /\ RunIdle
    /\ ExtIdle
    /\ DocIdle
    /\ CliIdle
    /\ PtrIdle

\* uv.py:288-294: the script is uploaded
PushUploadScript(p) ==
    /\ push[p].pc = "upload"
    /\ hub_scripts' = hub_scripts \cup {push[p].script_name}
    /\ push' = [push EXCEPT ![p].pc = "download"]
    /\ UNCHANGED hub_readme
    /\ UNCHANGED nonPush

\* uv.py:299-306: the README is downloaded and read
PushDownloadReadme(p) ==
    /\ push[p].pc = "download"
    /\ push' = [push EXCEPT ![p].readme_content = <<hub_readme>>,
                            ![p].pc = "update"]
    /\ UNCHANGED <<hub_readme, hub_scripts>>
    /\ UNCHANGED nonPush

\* uv.py:308-319: for a script the README does not mention, the README is
\* updated and uploaded
PushUpdateReadme(p) ==
    /\ push[p].pc = "update"
    /\ LET doc == push[p].readme_content[1]
           new == UpdateReadmeForNewScript(doc, RepoId, push[p].script_name,
                                           push[p].script_content)
       IN  IF IsNewScript(push[p].script_name, doc)
           THEN /\ hub_readme' = new
                /\ push' = [push EXCEPT ![p].uploaded = <<new>>,
                                        ![p].pc = "done"]
           ELSE /\ hub_readme' = hub_readme
                /\ push' = [push EXCEPT ![p].pc = "done"]
    /\ UNCHANGED hub_scripts
    /\ UNCHANGED nonPush

PushNext ==
    \/ \E p \in Invocations : PushUploadScript(p)
    \/ \E p \in Invocations : PushDownloadReadme(p)
    \/ \E p \in Invocations : PushUpdateReadme(p)

PushSpec == PushInit /\ [][PushNext]_allVars

-----------------------------------------------------------------------------
(* Properties of push and the README sections *)

\* the document has a block for the filename
HasEntry(doc, name) ==
    LET lines == Split(doc, Newline)
    IN  \E k \in 1..Len(lines) : lines[k] = <<"### ">> \o name

\* the invocation has ended, successfully: push has no failure after the
\* upload of the script
Pushed(p) == push[p].pc = "done"

\* C28: after a push of a script whose filename has no entry in the README
\* of the repository, the README the push uploaded has an entry for it,
\* also where the filename is part of other text of the README.
C28_NewScriptDocumented ==
    \A p \in Invocations :
        (Pushed(p) /\ ~HasEntry(push[p].readme_content[1], push[p].script_name))
            => /\ push[p].uploaded # <<>>
               /\ HasEntry(push[p].uploaded[1], push[p].script_name)

\* the document new is the document old with the block (and, before it, a
\* "## Scripts" heading; at the end, the default footer) put in
OnlyAdds(old, new, info) ==
    \E k \in 0..Len(old) :
        \E heading \in {<<>>, <<Newline>> \o ScriptsHeading \o <<Newline, Newline>>} :
            \E footer \in {<<>>, DefaultFooter} :
                new = SubSeq(old, 1, k) \o heading \o info
                      \o SubSeq(old, k + 1, Len(old)) \o footer

\* C29: the section update only adds text: taking the block it put in (and
\* the heading or the default footer it added) out of the README uploaded
\* gives the README downloaded, whatever the README downloaded was.
C29_OnlyAddsText ==
    \A p \in Invocations :
        push[p].uploaded # <<>> =>
            OnlyAdds(push[p].readme_content[1], push[p].uploaded[1],
                     ScriptInfo(RepoId, push[p].script_name, push[p].script_content))

\* C30: when two pushes of two new scripts to one repository have both
\* ended, the README of the repository documents both scripts.
C30_BothDocumented ==
    (\A p \in Invocations : Pushed(p) /\ push[p].uploaded # <<>>)
        => \A p \in Invocations : HasEntry(hub_readme, push[p].script_name)

-----------------------------------------------------------------------------
(***************************************************************************)
(* Two invocations and the pointer file (src/hfjobs/commands/uv.py:794-807 *)
(* and 254-272).  In each of two terminals an init is followed by a push   *)
(* without --repo, outside any project directory.  Path.write_text opens   *)
(* the file for writing, which empties it, and then writes the text from   *)
(* the start of the file: two system calls, with nothing that keeps the    *)
(* other invocation out in between.  An identifier is a sequence of        *)
(* characters here, so that a write over a longer file leaves its tail.    *)
(***************************************************************************)

\* the repositories the two inits are given
Identifiers ==
    { <<"a", "/", "x">>, <<"a", "/", "x", "y">>, <<"b", "/", "z", "z", "z">> }

\* what the two invocations leave alone
nonPtr == <<vars, extVars, docVars, cliVars, pushVars>>

\* write(text) through a descriptor at position 0 of a file: the text takes
\* the place of the first characters, the rest of the file stays
WriteAt(file, text) == text \o SubSeq(file, Len(text) + 1, Len(file))

\* the repositories the inits have created so far
CreatedByInit ==
    {inv[p].repo : p \in {q \in Invocations : inv[q].pc # "init"}}

PtrInit ==
    /\ pointer = <<>>
    /\ \E r1 \in Identifiers : \E r2 \in Identifiers \ {r1} :
        inv = [p \in Invocations |->
                 [pc |-> "init",
                  repo |-> IF p = 1 THEN r1 ELSE r2,
                  read |-> <<>>,
                  target |-> <<>>,
                  error |-> "none"]]
    /\ RunIdle
    /\ ExtIdle
    /\ DocIdle
    /\ CliIdle
    /\ PushIdle

\* uv.py:143-224: the init creates its repository and uploads to it
PtrInitCreate(p) ==
    /\ inv[p].pc = "init"
    /\ inv' = [inv EXCEPT ![p].pc = "save"]
    /\ UNCHANGED pointer
    /\ UNCHANGED nonPtr

\* uv.py:796-800: write_text opens the pointer file for writing: the file
\* is there and empty
PtrOpen(p) ==
    /\ inv[p].pc = "save"
    /\ pointer' = <<>>
    /\ inv' = [inv EXCEPT ![p].pc = "opened"]
    /\ UNCHANGED nonPtr

\* uv.py:800: write_text writes the identifier and closes the file
PtrWrite(p) ==
    /\ inv[p].pc = "opened"
    /\ pointer' = WriteAt(pointer, inv[p].repo)
    /\ inv' = [inv EXCEPT ![p].pc = "push"]
    /\ UNCHANGED nonPtr

\* uv.py:254-259 and 802-807: the push reads the pointer
PtrPushRead(p) ==
    /\ inv[p].pc = "push"
    /\ IF pointer = <<>>
       THEN inv' = [inv EXCEPT ![p].read = <<pointer>>,
                               ![p].error = "Error: No repository specified",
                               ![p].pc = "done"]
       ELSE inv' = [inv EXCEPT ![p].read = <<pointer>>,
                               ![p].pc = "check"]
    /\ UNCHANGED pointer
    /\ UNCHANGED nonPtr

\* uv.py:267-294: the push uploads to the repository it read, if it exists
PtrPushUpload(p) ==
    /\ inv[p].pc = "check"
    /\ IF inv[p].read[1] \in CreatedByInit
       THEN inv' = [inv EXCEPT ![p].target = inv[p].read,
                               ![p].pc = "done"]
       ELSE inv' = [inv EXCEPT ![p].error = "Error: Repository not found",
                               ![p].pc = "done"]
    /\ UNCHANGED pointer
    /\ UNCHANGED nonPtr

PtrNext ==
    \/ \E p \in Invocations : PtrInitCreate(p)
    \/ \E p \in Invocations : PtrOpen(p)
    \/ \E p \in Invocations : PtrWrite(p)
    \/ \E p \in Invocations : PtrPushRead(p)
    \/ \E p \in Invocations : PtrPushUpload(p)

PtrSpec == PtrInit /\ [][PtrNext]_allVars

-----------------------------------------------------------------------------
(* Properties of the pointer file *)

\* the inits that have saved their identifier
Saved == {p \in Invocations : inv[p].pc \in {"push", "check", "done"}}

\* C25: with two invocations interleaved, once an init has saved its
\* identifier the pointer holds one whole identifier that some init saved,
\* and so does every push that has read the pointer.
C25_PointerWhole ==
    /\ Saved # {} => \E q \in Saved : pointer = inv[q].repo
    /\ \A p \in Invocations :
           inv[p].read # <<>> => \E q \in Saved : inv[p].read[1] = inv[q].repo

=============================================================================
